---------------------------- MODULE Spec2Model ----------------------------
(***************************************************************************)
(* Model of src/src/temperature.cpp (meteoland): interpolation of          *)
(* temperature observed at stations onto query points, for one day         *)
(* (interpolateTemperaturePoints) and for a series of days                 *)
(* (interpolateTemperatureSeriesPoints).                                   *)
(*                                                                         *)
(* Numbers.  A C++ double is modelled as a pair <<n, d>>:                  *)
(*   d > 0   the rational n/d in lowest terms (arithmetic is exact: the    *)
(*           rounding of IEEE operations is not modelled),                 *)
(*   <<1,0>>, <<-1,0>>   +Inf, -Inf,                                       *)
(*   <<0,0>>   NaN (the outcome of 0/0),                                   *)
(*   <<2,0>>   R's NA_real_ (a NaN that NumericVector::is_na also accepts).*)
(*                                                                         *)
(* Planar distances.  r = sqrt(dx^2 + dy^2) is irrational in general, so   *)
(* every length is carried as its square: r2 stands for r^2, Rp2 for Rp^2  *)
(* and iniRp2 for iniRp^2.  The code uses lengths only in r >= Rp, in      *)
(* (r/Rp)^2 and in Rp * sqrt(N/sumW), which on squares are r2 >= Rp2,      *)
(* r2/Rp2 and Rp2 * N/sumW, exactly.                                       *)
(***************************************************************************)
EXTENDS Integers, Sequences, FiniteSets

----------------------------------------------------------------------------
(* double arithmetic *)

Abs(n) == IF n < 0 THEN -n ELSE n

Sgn(n) == IF n < 0 THEN -1 ELSE IF n > 0 THEN 1 ELSE 0

RECURSIVE Gcd(_, _)
Gcd(a, b) == IF b = 0 THEN a ELSE Gcd(b, a % b)

\* the rational n/d (d > 0) in lowest terms
Norm(n, d) == LET g == Gcd(Abs(n), d) IN <<n \div g, d \div g>>

Num(n) == <<n, 1>>
Rat(n, d) == Norm(n, d)
Zero == <<0, 1>>
One == <<1, 1>>
NaN == <<0, 0>>
NA == <<2, 0>>
Inf(s) == <<s, 0>>

IsFinite(a) == a[2] > 0
IsInf(a) == a[2] = 0 /\ a[1] \in {1, -1}
\* R_isnancpp: true of NaN and of NA
IsNaN(a) == a[2] = 0 /\ a[1] \notin {1, -1}

Neg(a) == IF IsNaN(a) THEN a ELSE <<-a[1], a[2]>>

Add(a, b) ==
  IF IsNaN(a) \/ IsNaN(b) THEN NaN
  ELSE IF IsInf(a) /\ IsInf(b) THEN (IF a = b THEN a ELSE NaN)
  ELSE IF IsInf(a) THEN a
  ELSE IF IsInf(b) THEN b
  ELSE LET g == Gcd(a[2], b[2])
           l == (a[2] \div g) * b[2]
       IN Norm(a[1] * (b[2] \div g) + b[1] * (a[2] \div g), l)

Sub(a, b) == Add(a, Neg(b))

Mul(a, b) ==
  IF IsNaN(a) \/ IsNaN(b) THEN NaN
  ELSE IF IsInf(a) \/ IsInf(b)
       THEN (IF a[1] = 0 \/ b[1] = 0 THEN NaN ELSE Inf(Sgn(a[1]) * Sgn(b[1])))
  ELSE LET g1 == Gcd(Abs(a[1]), b[2])
           g2 == Gcd(Abs(b[1]), a[2])
       IN Norm((a[1] \div g1) * (b[1] \div g2), (a[2] \div g2) * (b[2] \div g1))

Div(a, b) ==
  IF IsNaN(a) \/ IsNaN(b) THEN NaN
  ELSE IF IsInf(b) THEN (IF IsInf(a) THEN NaN ELSE Zero)
  ELSE IF IsInf(a) THEN Inf(IF b[1] < 0 THEN -a[1] ELSE a[1])
  ELSE IF b[1] = 0 THEN (IF a[1] = 0 THEN NaN ELSE Inf(Sgn(a[1])))
  ELSE Mul(a, <<Sgn(b[1]) * b[2], Abs(b[1])>>)

\* a < b and a >= b of doubles: false when an operand is NaN
Less(a, b) ==
  /\ ~IsNaN(a) /\ ~IsNaN(b)
  /\ a # b
  /\ IF IsInf(a) THEN a[1] = -1
     ELSE IF IsInf(b) THEN b[1] = 1
     ELSE a[1] * b[2] < b[1] * a[2]

GreaterEq(a, b) == ~IsNaN(a) /\ ~IsNaN(b) /\ ~Less(a, b)

\* std::accumulate(v.begin(), v.end(), 0.0)
RECURSIVE SumTo(_, _)
SumTo(v, k) == IF k = 0 THEN Zero ELSE Add(SumTo(v, k - 1), v[k])

Sum(v) == SumTo(v, Len(v))

\* element-wise product of two vectors of the same length
VMul(a, b) == [k \in 1..Len(a) |-> Mul(a[k], b[k])]

----------------------------------------------------------------------------
(* interpolationutils: WeightKernel, RadiusEstimator, WeightedRegressor.    *)
(* Their code is not part of src/; they are modelled from spec.md 4.1-4.3.  *)

\* Stand-in for exp(-x), x >= 0: TLA+ has no transcendental functions, so the
\* kernel's exponential is replaced by 1/(1+x), which like exp(-x) is 1 at 0,
\* positive and strictly decreasing.  The kernel below keeps the spec's form.
ExpNeg(x) == Div(One, Add(One, x))

\* 4.1: weight(r) = (exp(-alpha (r/Rp)^2) - exp(-alpha)) / (1 - exp(-alpha))
\* for r < Rp, and exactly 0 for r >= Rp
gaussianWeight(r2, Rp2, alpha) ==
  IF GreaterEq(r2, Rp2) THEN Zero
  ELSE Div(Sub(ExpNeg(Mul(alpha, Div(r2, Rp2))), ExpNeg(alpha)),
           Sub(One, ExpNeg(alpha)))

gaussianFilter(r2, Rp2, alpha) ==
  [i \in 1..Len(r2) |-> gaussianWeight(r2[i], Rp2, alpha)]

\* 4.2: repeat `iterations` times: Rp <- Rp * sqrt(N / sumW) whenever
\* sumW > 0, Rp unchanged when sumW = 0
RECURSIVE estimateRpFrom(_, _, _, _, _)
estimateRpFrom(r2, Rp2, alpha, N, it) ==
  IF it <= 0 THEN Rp2
  ELSE LET sumW == Sum(gaussianFilter(r2, Rp2, alpha))
       IN estimateRpFrom(r2,
                         IF Less(Zero, sumW) THEN Mul(Rp2, Div(Num(N), sumW))
                                             ELSE Rp2,
                         alpha, N, it - 1)

estimateRp(r2, iniRp2, alpha, N, iterations) ==
  estimateRpFrom(r2, iniRp2, alpha, N, iterations)

\* 4.3: weighted least squares of Y on X with weights W; <<intercept, slope>>
\* (wr[0], wr[1]).  Zero weighted variance of X, or zero total weight: slope
\* 0 and intercept the weighted mean of Y (the quotient sum(W*Y)/sum(W),
\* which is 0/0 when the total weight is zero).
weightedRegression(Y, X, W) ==
  LET Wsum == Sum(W)
      wMeanX == Div(Sum(VMul(X, W)), Wsum)
      wMeanY == Div(Sum(VMul(Y, W)), Wsum)
      dX == [k \in 1..Len(X) |-> Sub(X[k], wMeanX)]
      dY == [k \in 1..Len(X) |-> Sub(Y[k], wMeanY)]
      var == Sum([k \in 1..Len(X) |-> Mul(W[k], Mul(dX[k], dX[k]))])
      cov == Sum([k \in 1..Len(X) |-> Mul(W[k], Mul(dX[k], dY[k]))])
      b == Div(cov, var)
  IN IF Wsum = Zero \/ var = Zero
     THEN <<wMeanY, Zero>>
     ELSE <<Sub(wMeanY, Mul(b, wMeanX)), b>>

----------------------------------------------------------------------------
(* interpolateTemperaturePoint and interpolateTemperaturePoints as          *)
(* functions of their arguments.  par is the record of iniRp2, alpha, N,    *)
(* iterations.  Loop counters are the code's (from 0); sequences are        *)
(* indexed from 1, so element i of the code is element i+1 here.            *)

\* nstations*(nstations-1)/2, the length of zDif, tDif and WDif
PairCount(n) == (n * (n - 1)) \div 2

Zeros(n) == [k \in 1..n |-> Zero]

\* variant of line 15: the distance taken in three dimensions
Distances3D(xp, yp, zp, X, Y, Z) ==
  [i \in 1..Len(X) |->
     LET zi == IF i <= Len(Z) THEN Z[i] ELSE Zero
     IN Add(Add(Mul(Sub(xp, X[i]), Sub(xp, X[i])),
                Mul(Sub(yp, Y[i]), Sub(yp, Y[i]))),
            Mul(Sub(zp, zi), Sub(zp, zi)))]

\* r[i] = sqrt(pow(xp-X[i],2.0)+pow(yp-Y[i],2.0)), as r[i]^2
Distances(xp, yp, zp, X, Y, Z) ==
  [i \in 1..Len(X) |->
     Add(Mul(Sub(xp, X[i]), Sub(xp, X[i])), Mul(Sub(yp, Y[i]), Sub(yp, Y[i])))]

\* the loop "for i < n, for j < i: D[c] = V[i]-V[j]; c++" from (i, j, c) on
RECURSIVE DifLoop(_, _, _, _, _, _)
DifLoop(V, n, i, j, c, D) ==
  IF i >= n THEN D
  ELSE IF j < i
       THEN DifLoop(V, n, i, j + 1, c + 1,
                    [D EXCEPT ![c + 1] = Sub(V[i + 1], V[j + 1])])
       ELSE DifLoop(V, n, i + 1, 0, c, D)

BuildDif(V, n) == DifLoop(V, n, 0, 0, 0, Zeros(PairCount(n)))

\* the loop "for i < n, for j < i: WDif[c] = W[i]*W[j]; c++"
RECURSIVE WDifLoop(_, _, _, _, _, _)
WDifLoop(W, n, i, j, c, D) ==
  IF i >= n THEN D
  ELSE IF j < i
       THEN WDifLoop(W, n, i, j + 1, c + 1,
                     [D EXCEPT ![c + 1] = Mul(W[i + 1], W[j + 1])])
       ELSE WDifLoop(W, n, i + 1, 0, c, D)

BuildWDif(W, n, nDif) == WDifLoop(W, n, 0, 0, 0, Zeros(nDif))

\* variants of line 35: the weight left out; the elevation difference
\* reversed
WeightedTermUnweighted(Wi, Ti, Zi, zp, wr) ==
  Add(Add(Ti, wr[1]), Mul(wr[2], Sub(zp, Zi)))

WeightedTermReversed(Wi, Ti, Zi, zp, wr) ==
  Mul(Wi, Add(Add(Ti, wr[1]), Mul(wr[2], Sub(Zi, zp))))

\* Wnum += W[i]*(T[i]+wr[0]+wr[1]*(zp-Z[i])) for i < nstations
WeightedTerm(Wi, Ti, Zi, zp, wr) ==
  Mul(Wi, Add(Add(Ti, wr[1]), Mul(wr[2], Sub(zp, Zi))))

ApplyWeighting(W, T, Z, zp, wr) ==
  Sum([i \in 1..Len(W) |-> WeightedTerm(W[i], T[i], Z[i], zp, wr)])

\* what one call of interpolateTemperaturePoint computes
PointCall(xp, yp, zp, X, Y, Z, T, zDif, tDif, par) ==
  LET r == Distances(xp, yp, zp, X, Y, Z)
      Rp == estimateRp(r, par.iniRp2, par.alpha, par.N, par.iterations)
      W == gaussianFilter(r, Rp, par.alpha)
      WDif == BuildWDif(W, Len(X), Len(tDif))
      wr == weightedRegression(tDif, zDif, WDif)
      Wnum == ApplyWeighting(W, T, Z, zp, wr)
  IN [r |-> r, Rp |-> Rp, W |-> W, WDif |-> WDif, wr |-> wr,
      value |-> Div(Wnum, Sum(W))]

interpolateTemperaturePoint(xp, yp, zp, X, Y, Z, T, zDif, tDif, par) ==
  PointCall(xp, yp, zp, X, Y, Z, T, zDif, tDif, par).value

interpolateTemperaturePoints(Xp, Yp, Zp, X, Y, Z, T, par) ==
  LET nstations == Len(X)
      zDif == BuildDif(Z, nstations)
      tDif == BuildDif(T, nstations)
  IN [i \in 1..Len(Xp) |->
        interpolateTemperaturePoint(Xp[i], Yp[i], Zp[i], X, Y, Z, T,
                                    zDif, tDif, par)]

----------------------------------------------------------------------------
(* State *)

VARIABLES
  Xp, Yp, Zp,       \* query points (NumericVector each)
  X, Y, Z,          \* station coordinates and elevation
  T,                \* station values: a vector (interpolateTemperaturePoints)
                    \* or the matrix T(i,d) as T[i+1][d+1] (series)
  par,              \* iniRp (squared), alpha, N, iterations
  pc,               \* position in the running entry point
  Tp,               \* the result being filled: a vector, or for the series
                    \* the matrix Tp(p,d) as Tp[d+1][p+1]
  \* interpolateTemperaturePoints
  zDif, tDif, c, i, j,
  p,                \* the points loop's counter (i at line 132)
  \* interpolateTemperaturePoint, for point p
  r, Rp, W, WDif, wc, wi, wj, wr,
  \* interpolateTemperatureSeriesPoints
  d, missing, Xday, Yday, Zday, Tday,
  \* a second series run on T2, which differs from T in one column only
  T2, missing2, Tp2

inputs == <<Xp, Yp, Zp, X, Y, Z, T, par, T2>>
batchVars == <<zDif, tDif, c, i, j, p>>
pointVars == <<r, Rp, W, WDif, wc, wi, wj, wr>>
seriesVars == <<d, missing, Xday, Yday, Zday, Tday, missing2, Tp2>>
vars == <<inputs, pc, Tp, batchVars, pointVars, seriesVars>>

----------------------------------------------------------------------------
(* Bounds and input sets *)

MaxStations == 3
MaxDays == 2

V(s) == [k \in 1..Len(s) |-> Num(s[k])]

\* stations on a line through the origin, and stations on the unit circle
\* around it (all at the same planar distance from <<0, 0>>)
LineX(n) == [k \in 1..n |-> Num(2 * (k - 1))]
LineY(n) == [k \in 1..n |-> Zero]
RingX(n) == [k \in 1..n |-> Num(<<1, -1, 0, 0>>[((k - 1) % 4) + 1])]
RingY(n) == [k \in 1..n |-> Num(<<0, 0, 1, -1>>[((k - 1) % 4) + 1])]
Layouts(n) == {<<LineX(n), LineY(n)>>, <<RingX(n), RingY(n)>>}

ZVals == {Zero, One}
TVals == {One, Num(2)}

\* query points <<xp, yp, zp>>, and the batches of them
PtA == <<0, 0, 0>>
PtB == <<1, 1, 2>>
Batches == {<<PtA>>, <<PtB>>, <<PtA, PtB>>, <<PtB, PtA>>}
Coord(b, k) == [q \in 1..Len(b) |-> Num(b[q][k])]

Pars == [iniRp2 : {Num(2), Num(9)}, alpha : {Num(3)}, N : {1, 2},
         iterations : {0, 1}]

\* what a read beyond the end of a vector may yield
Garbage == {Zero, Num(7)}

----------------------------------------------------------------------------
(* interpolateTemperaturePoints, step by step *)

nstations == Len(X)
npoints == Len(Xp)

\* V[k] (from 1), or g when k is beyond V's end
Rd(vec, k, g) == IF k <= Len(vec) THEN vec[k] ELSE g
OobVals(vec, k) == IF k <= Len(vec) THEN {Zero} ELSE Garbage
\* the first n elements as the code reads them: its own, then garbage
Ext(vec, n, g) == [k \in 1..n |-> IF k <= Len(vec) THEN vec[k] ELSE g[k]]
GarbageExt(vec, n) == [(Len(vec) + 1)..n -> Garbage]

ShapeMismatch == Len(Y) # Len(X) \/ Len(Z) # Len(X) \/ Len(T) # Len(X)

\* the locals of a function that is not running
IdleBatch == zDif = <<>> /\ tDif = <<>> /\ c = 0 /\ i = 0 /\ j = 0 /\ p = 0
IdlePoint ==
  /\ r = <<>> /\ Rp = Zero /\ W = <<>> /\ WDif = <<>>
  /\ wc = 0 /\ wi = 0 /\ wj = 0 /\ wr = <<Zero, Zero>>
IdleSeries ==
  /\ d = 0 /\ missing = <<>> /\ missing2 = <<>> /\ Tp2 = <<>>
  /\ Xday = <<>> /\ Yday = <<>> /\ Zday = <<>> /\ Tday = <<>>

\* lines 119-124
BatchEntry ==
  /\ pc = "entry"
  /\ Tp' = Zeros(npoints)
  /\ zDif' = Zeros(PairCount(nstations))
  /\ tDif' = Zeros(PairCount(nstations))
  /\ c' = 0 /\ i' = 0 /\ j' = 0
  /\ pc' = "build"
  /\ UNCHANGED <<inputs, p, pointVars, seriesVars>>

\* variant of lines 127-128: the differences taken as V[j]-V[i]
BuildStepReversed ==
  /\ pc = "build" /\ i < nstations /\ j < i
  /\ \E gzi \in OobVals(Z, i + 1), gzj \in OobVals(Z, j + 1),
        gti \in OobVals(T, i + 1), gtj \in OobVals(T, j + 1) :
       /\ zDif' = [zDif EXCEPT ![c + 1] = Sub(Rd(Z, j + 1, gzj), Rd(Z, i + 1, gzi))]
       /\ tDif' = [tDif EXCEPT ![c + 1] = Sub(Rd(T, j + 1, gtj), Rd(T, i + 1, gti))]
  /\ c' = c + 1
  /\ j' = j + 1
  /\ UNCHANGED <<inputs, pc, Tp, i, p, pointVars, seriesVars>>

\* lines 126-130, one pass of the inner loop's body
BuildStep ==
  /\ pc = "build" /\ i < nstations /\ j < i
  /\ \E gzi \in OobVals(Z, i + 1), gzj \in OobVals(Z, j + 1),
        gti \in OobVals(T, i + 1), gtj \in OobVals(T, j + 1) :
       /\ zDif' = [zDif EXCEPT ![c + 1] = Sub(Rd(Z, i + 1, gzi), Rd(Z, j + 1, gzj))]
       /\ tDif' = [tDif EXCEPT ![c + 1] = Sub(Rd(T, i + 1, gti), Rd(T, j + 1, gtj))]
  /\ c' = c + 1
  /\ j' = j + 1
  /\ UNCHANGED <<inputs, pc, Tp, i, p, pointVars, seriesVars>>

\* line 126 ends (j = i), line 125 steps
BuildNextI ==
  /\ pc = "build" /\ i < nstations /\ j >= i
  /\ i' = i + 1 /\ j' = 0
  /\ UNCHANGED <<inputs, pc, Tp, zDif, tDif, c, p, pointVars, seriesVars>>

\* line 125 ends, line 132 starts
BuildExit ==
  /\ pc = "build" /\ i >= nstations
  /\ pc' = "points" /\ p' = 0
  /\ UNCHANGED <<inputs, Tp, zDif, tDif, c, i, j, pointVars, seriesVars>>

\* line 133 calls interpolateTemperaturePoint; its lines 11-21
PointBegin ==
  /\ pc = "points" /\ p < npoints
  /\ \E gy \in GarbageExt(Y, nstations) :
       r' = Distances(Xp[p + 1], Yp[p + 1], Zp[p + 1],
                      X, Ext(Y, nstations, gy), Z)
  /\ Rp' = estimateRp(r', par.iniRp2, par.alpha, par.N, par.iterations)
  /\ W' = gaussianFilter(r', Rp', par.alpha)
  /\ WDif' = Zeros(Len(tDif))
  /\ wc' = 0 /\ wi' = 0 /\ wj' = 0
  /\ pc' = "wdif"
  /\ UNCHANGED <<inputs, Tp, batchVars, wr, seriesVars>>

\* lines 23-27, one pass of the inner loop's body
WDifStep ==
  /\ pc = "wdif" /\ wi < nstations /\ wj < wi
  /\ WDif' = [WDif EXCEPT ![wc + 1] = Mul(W[wi + 1], W[wj + 1])]
  /\ wc' = wc + 1
  /\ wj' = wj + 1
  /\ UNCHANGED <<inputs, pc, Tp, batchVars, r, Rp, W, wi, wr, seriesVars>>

WDifNextI ==
  /\ pc = "wdif" /\ wi < nstations /\ wj >= wi
  /\ wi' = wi + 1 /\ wj' = 0
  /\ UNCHANGED <<inputs, pc, Tp, batchVars, r, Rp, W, WDif, wc, wr, seriesVars>>

WDifExit ==
  /\ pc = "wdif" /\ wi >= nstations
  /\ pc' = "regress"
  /\ UNCHANGED <<inputs, Tp, batchVars, pointVars, seriesVars>>

\* variant of line 30: the regression scales the caller's tDif in place
PointFinishInPlace ==
  /\ pc = "regress"
  /\ wr' = weightedRegression(tDif, zDif, WDif)
  /\ tDif' = VMul(tDif, WDif)
  /\ \E gt \in GarbageExt(T, nstations), gz \in GarbageExt(Z, nstations) :
       Tp' = [Tp EXCEPT ![p + 1] =
                Div(ApplyWeighting(W, Ext(T, nstations, gt),
                                   Ext(Z, nstations, gz), Zp[p + 1], wr'),
                    Sum(W))]
  /\ p' = p + 1
  /\ pc' = "points"
  /\ UNCHANGED <<inputs, zDif, c, i, j, r, Rp, W, WDif, wc, wi, wj,
                 seriesVars>>

\* lines 30-38, and the store of the returned value at line 133
PointFinish ==
  /\ pc = "regress"
  /\ wr' = weightedRegression(tDif, zDif, WDif)
  /\ \E gt \in GarbageExt(T, nstations), gz \in GarbageExt(Z, nstations) :
       Tp' = [Tp EXCEPT ![p + 1] =
                Div(ApplyWeighting(W, Ext(T, nstations, gt),
                                   Ext(Z, nstations, gz), Zp[p + 1], wr'),
                    Sum(W))]
  /\ p' = p + 1
  /\ pc' = "points"
  /\ UNCHANGED <<inputs, zDif, tDif, c, i, j, r, Rp, W, WDif, wc, wi, wj,
                 seriesVars>>

\* line 136
BatchReturn ==
  /\ pc = "points" /\ p >= npoints
  /\ pc' = "done"
  /\ UNCHANGED <<inputs, Tp, batchVars, pointVars, seriesVars>>

\* a read beyond the end of Y, Z or T may also end the process
OobCrash ==
  /\ \/ pc = "build" /\ i < nstations /\ j < i
           /\ (i + 1 > Len(Z) \/ i + 1 > Len(T))
     \/ pc = "points" /\ p < npoints /\ Len(Y) < nstations
     \/ pc = "regress" /\ (Len(T) < nstations \/ Len(Z) < nstations)
  /\ pc' = "crashed"
  /\ UNCHANGED <<inputs, Tp, batchVars, pointVars, seriesVars>>

\* a call with station vectors of one length
InitWellShaped ==
  \E n \in 0..MaxStations :
    \E lay \in Layouts(n), b \in Batches :
      /\ X = lay[1] /\ Y = lay[2]
      /\ Z \in [1..n -> ZVals]
      /\ T \in [1..n -> TVals]
      /\ Xp = Coord(b, 1) /\ Yp = Coord(b, 2) /\ Zp = Coord(b, 3)
      /\ par \in Pars
      \* the radius is calibrated where the weights stay equal (elsewhere
      \* the regression's sums leave TLC's 32-bit integers)
      /\ par.iterations > 0 => lay[1] = RingX(n) /\ b = <<PtA>>

\* a call whose Y, Z or T is one shorter or one longer than X
InitMismatch ==
  \E n \in 1..MaxStations :
    \E ny, nz, nt \in {n - 1, n, n + 1} :
      /\ Cardinality({k \in 1..3 : <<ny, nz, nt>>[k] # n}) = 1
      /\ X = LineX(n) /\ Y = LineY(ny)
      /\ Z = [k \in 1..nz |-> Num(k % 2)]
      /\ T = [k \in 1..nt |-> Num(k)]
      /\ Xp = Coord(<<PtA>>, 1) /\ Yp = Coord(<<PtA>>, 2) /\ Zp = Coord(<<PtA>>, 3)
      /\ par = [iniRp2 |-> Num(9), alpha |-> Num(3), N |-> 2, iterations |-> 0]

\* spec.md 8, concrete scenario: elevations 0, 500, 1000 with values 20, 17,
\* 14; the query point at elevation 250 at the centre of the ring
InitScenario ==
  /\ X = RingX(3) /\ Y = RingY(3)
  /\ Z = V(<<0, 500, 1000>>)
  /\ T = V(<<20, 17, 14>>)
  /\ Xp = <<Zero>> /\ Yp = <<Zero>> /\ Zp = <<Num(250)>>
  /\ par \in [iniRp2 : {One, Num(2), Num(9)}, alpha : {One, Num(3)},
              N : {1, 2}, iterations : {0, 1}]

InitBatch ==
  /\ InitWellShaped \/ InitMismatch \/ InitScenario
  /\ pc = "entry"
  /\ Tp = <<>>
  /\ IdleBatch /\ IdlePoint /\ IdleSeries
  /\ T2 = <<>>

NextBatch ==
  \/ BatchEntry \/ BuildStep \/ BuildNextI \/ BuildExit
  \/ PointBegin \/ WDifStep \/ WDifNextI \/ WDifExit \/ PointFinish
  \/ BatchReturn \/ OobCrash

SpecBatch == InitBatch /\ [][NextBatch]_vars

----------------------------------------------------------------------------
(* interpolateTemperatureSeriesPoints.  The matrix T is held by columns,    *)
(* as R stores it: T(i,d) is T[d+1][i+1], and T.ncol() is Len(T).           *)

nDays == Len(T)

\* variants of line 152: the elevation left unchecked; the flag of the day
\* before kept
MissingFlagNoZ(old, t, x, y, z) == IsNaN(t) \/ IsNaN(x) \/ IsNaN(y)

MissingFlagSticky(old, t, x, y, z) ==
  old \/ IsNaN(t) \/ IsNaN(x) \/ IsNaN(y) \/ IsNaN(z)

\* line 152: missing[i] = is_na(T(i,d)) || is_na(X[i]) || is_na(Y[i]) ||
\* is_na(Z[i]); old is the flag's value before the assignment
MissingFlag(old, t, x, y, z) == IsNaN(t) \/ IsNaN(x) \/ IsNaN(y) \/ IsNaN(z)

\* lines 151-154 for the column Tcol, from the flags left by the day before
MissingLoop(prev, Tcol) ==
  [k \in 1..nstations |-> MissingFlag(prev[k], Tcol[k], X[k], Y[k], Z[k])]

\* nmis at line 155
CountMissing(miss) == Cardinality({k \in 1..Len(miss) : miss[k]})

\* lines 161-169 for one of the four day vectors: from (i, c) on
RECURSIVE CompactLoop(_, _, _, _, _)
CompactLoop(vec, miss, k, cc, out) ==
  IF k >= Len(miss) THEN out
  ELSE IF ~miss[k + 1]
       THEN CompactLoop(vec, miss, k + 1, cc + 1,
                        [out EXCEPT ![cc + 1] = vec[k + 1]])
       ELSE CompactLoop(vec, miss, k + 1, cc, out)

\* lines 156-169: a vector of nstations-nmis elements, filled by the loop
Compact(vec, miss) ==
  CompactLoop(vec, miss, 0, 0, Zeros(Len(miss) - CountMissing(miss)))

\* lines 171-173 on the day vectors of the flags miss
DayCall(Tcol, miss) ==
  interpolateTemperaturePoints(Xp, Yp, Zp, Compact(X, miss), Compact(Y, miss),
                               Compact(Z, miss), Compact(Tcol, miss), par)

\* lines 143-147
SeriesEntry ==
  /\ pc = "entry"
  /\ Tp' = [dd \in 1..nDays |-> Zeros(npoints)]
  /\ Tp2' = [dd \in 1..nDays |-> Zeros(npoints)]
  /\ missing' = [k \in 1..nstations |-> FALSE]
  /\ missing2' = [k \in 1..nstations |-> FALSE]
  /\ d' = 0
  /\ pc' = "days"
  /\ UNCHANGED <<inputs, batchVars, pointVars, Xday, Yday, Zday, Tday>>

\* lines 149-177: the body of the loop for day d, in both runs
SeriesDay ==
  /\ pc = "days" /\ d < nDays
  /\ missing' = MissingLoop(missing, T[d + 1])
  /\ Xday' = Compact(X, missing')
  /\ Yday' = Compact(Y, missing')
  /\ Zday' = Compact(Z, missing')
  /\ Tday' = Compact(T[d + 1], missing')
  /\ Tp' = [Tp EXCEPT ![d + 1] = DayCall(T[d + 1], missing')]
  /\ missing2' = MissingLoop(missing2, T2[d + 1])
  /\ Tp2' = [Tp2 EXCEPT ![d + 1] = DayCall(T2[d + 1], missing2')]
  /\ d' = d + 1
  /\ UNCHANGED <<inputs, pc, batchVars, pointVars>>

\* line 179
SeriesReturn ==
  /\ pc = "days" /\ d >= nDays
  /\ pc' = "done"
  /\ UNCHANGED <<inputs, Tp, batchVars, pointVars, seriesVars>>

\* the observation of station k (from 1) on day dd (from 1) when present
Obs(k, dd) == Num(((k + 2 * dd) % 3) + 1)

\* the column col with its cells moved round by one station
Rotate(col) == [k \in 1..Len(col) |-> col[(k % Len(col)) + 1]]

\* coordinate vectors with no cell, or one cell, missing
CoordSets(n) ==
  {<<LineX(n), LineY(n), [k \in 1..n |-> Num(k % 2)]>>}
  \cup {<<[LineX(n) EXCEPT ![1] = NA], LineY(n), [k \in 1..n |-> Num(k % 2)]>> :
          k0 \in {k \in {1} : n >= 1}}
  \cup {<<LineX(n), [LineY(n) EXCEPT ![2] = NA], [k \in 1..n |-> Num(k % 2)]>> :
          k0 \in {k \in {2} : n >= 2}}
  \cup {<<LineX(n), LineY(n), [k \in 1..n |-> IF k = n THEN NA ELSE Num(k % 2)]>> :
          k0 \in {k \in {n} : n >= 1}}

InitSeries ==
  /\ \E n \in 0..MaxStations, nd \in 1..MaxDays :
       \E co \in CoordSets(n), dstar \in 1..nd :
         /\ X = co[1] /\ Y = co[2] /\ Z = co[3]
         \* any pattern of at most MaxStations missing observations
         /\ \E mask \in SUBSET ((1..nd) \X (1..n)) :
              /\ Cardinality(mask) <= MaxStations
              /\ T = [dd \in 1..nd |->
                       [k \in 1..n |-> IF <<dd, k>> \in mask THEN NA
                                                            ELSE Obs(k, dd)]]
         \* the second run: column dstar changed
         /\ T2 = [dd \in 1..nd |-> IF dd = dstar THEN Rotate(T[dd]) ELSE T[dd]]
  /\ Xp = Coord(<<PtA, PtB>>, 1) /\ Yp = Coord(<<PtA, PtB>>, 2)
  /\ Zp = Coord(<<PtA, PtB>>, 3)
  /\ par = [iniRp2 |-> Num(9), alpha |-> Num(3), N |-> 2, iterations |-> 0]
  /\ pc = "entry"
  /\ Tp = <<>>
  /\ IdleBatch /\ IdlePoint /\ IdleSeries

NextSeries == SeriesEntry \/ SeriesDay \/ SeriesReturn

SpecSeries == InitSeries /\ [][NextSeries]_vars

----------------------------------------------------------------------------
(* Properties of interpolateTemperatureSeriesPoints (SpecSeries) *)

\* the stations whose observation on day dd (from 1) and coordinates are
\* all present
ValidStations(dd) ==
  {k \in 1..nstations :
     ~IsNaN(T[dd][k]) /\ ~IsNaN(X[k]) /\ ~IsNaN(Y[k]) /\ ~IsNaN(Z[k])}

\* C1: for every day, the four vectors passed to interpolateTemperaturePoints
\* hold exactly the stations whose observation of that day and coordinates
\* are all present, each once, in ascending station order and at the same
\* position in all four; the day's output column is what that call returns.
\* (Xday..Tday are those of day d-1, the day last processed, so holding in
\* every state this covers every day, whatever the days before excluded.)
C1_DayVectorsAreValidStations ==
  (pc \in {"days", "done"} /\ d >= 1) =>
    LET valid == ValidStations(d)
        m == Cardinality(valid)
    IN /\ Len(Xday) = m /\ Len(Yday) = m /\ Len(Zday) = m /\ Len(Tday) = m
       /\ \E f \in [1..m -> 1..nstations] :
            /\ \A a, b \in 1..m : a < b => f[a] < f[b]
            /\ {f[k] : k \in 1..m} = valid
            /\ \A k \in 1..m :
                 /\ Xday[k] = X[f[k]] /\ Yday[k] = Y[f[k]]
                 /\ Zday[k] = Z[f[k]] /\ Tday[k] = T[d][f[k]]
       /\ Tp[d] = interpolateTemperaturePoints(Xp, Yp, Zp, Xday, Yday, Zday,
                                               Tday, par)

\* a station left out on day 1 is back among the stations of day 2
C1_Witness ==
  /\ pc = "days" /\ d = 2 /\ nstations = 3
  /\ Cardinality(ValidStations(1)) = 2
  /\ ValidStations(2) = {1, 2, 3}
  /\ Len(Xday) = 3
  /\ \A q \in 1..npoints : IsFinite(Tp[2][q])

\* C2: two runs whose observation matrices differ in one column only give
\* the same output in every other column.
C2_OtherDaysAgree ==
  pc \in {"days", "done"} =>
    \A dd \in 1..d : T2[dd] = T[dd] => Tp2[dd] = Tp[dd]

\* the runs differ on day 1, in which station is missing and in the output,
\* and agree on day 2, where all stations are present
C2_Witness ==
  /\ pc = "done" /\ nDays = 2 /\ nstations = 3
  /\ T2[1] # T[1] /\ T2[2] = T[2]
  /\ \E k \in 1..3 : IsNaN(T[1][k]) /\ ~IsNaN(T2[1][k])
  /\ ValidStations(2) = {1, 2, 3}
  /\ Tp2[1] # Tp[1]
  /\ \A q \in 1..npoints : IsFinite(Tp[2][q])

----------------------------------------------------------------------------
(* Properties of interpolateTemperaturePoints (SpecBatch) *)

\* zDif and tDif as a call builds them from the stations alone
FreshZDif == BuildDif(Z, nstations)
FreshTDif == BuildDif(T, nstations)

\* C3: a call with fewer than 2 stations is surfaced as a failure: it does
\* not return a vector of values.
C3_InsufficientStationsSurfaced ==
  ~(pc = "done" /\ ~ShapeMismatch /\ nstations < 2)

\* C4: when every weight of a query point is zero the value stored for the
\* point is the explicit missing value, not the outcome of Wnum/0.
C4_ZeroWeightMassReported ==
  (pc = "points" /\ p >= 1 /\ ~ShapeMismatch /\ nstations >= 2
     /\ Sum(W) = Zero)
    => Tp[p] = NA

\* C5: with X, Y, Z, T of differing lengths the call computes no pair
\* difference (c stays 0) and no distance (no point is begun), reads no
\* element beyond a vector's end and does not return values.
C5_ShapeMismatchFailsFast ==
  ShapeMismatch => pc \in {"entry", "build", "points"} /\ c = 0 /\ p = 0

\* C6: when the batch returns, the value of each point is the value of
\* interpolateTemperaturePoint for that point alone with zDif and tDif built
\* afresh from the stations (so it is in the point's position and does not
\* depend on the other points), and the shared zDif and tDif stay as built
\* through every per-point call.
C6_BatchEqualsPointwise ==
  ~ShapeMismatch =>
    /\ pc = "done" =>
         \A k \in 1..npoints :
           Tp[k] = interpolateTemperaturePoint(Xp[k], Yp[k], Zp[k], X, Y, Z, T,
                                               FreshZDif, FreshTDif, par)
    /\ pc \in {"points", "wdif", "regress", "done"} =>
         zDif = FreshZDif /\ tDif = FreshTDif

\* two points of one batch finished with different finite values
C6_Witness ==
  /\ pc = "done" /\ npoints = 2 /\ nstations = 3 /\ ~ShapeMismatch
  /\ IsFinite(Tp[1]) /\ IsFinite(Tp[2]) /\ Tp[1] # Tp[2]
  /\ \E k \in 1..3 : tDif[k] # Zero

ConstantT == nstations >= 1 /\ \A k \in 1..nstations : T[k] = T[1]

CurPoint == IF pc = "points" THEN p ELSE p + 1

\* the same call with other elevations and values: the stations' values as
\* elevations, their elevations as values, the query one metre higher
AltCall ==
  PointCall(Xp[CurPoint], Yp[CurPoint], Add(Zp[CurPoint], One), X, Y, T, Z,
            BuildDif(T, nstations), BuildDif(Z, nstations), par)

\* C8: r, Rp, W and WDif of a call are those of the call that differs from
\* it in zp, Z and T.
C8_WeightsIgnoreElevation ==
  (~ShapeMismatch /\ (pc = "regress" \/ (pc = "points" /\ p >= 1))) =>
    LET alt == AltCall
    IN /\ r = alt.r /\ Rp = alt.Rp
       /\ W = alt.W /\ WDif = alt.WDif

\* the two calls do differ, in their elevations and in their results
C8_Witness ==
  /\ pc = "points" /\ p >= 1 /\ ~ShapeMismatch /\ nstations = 3
  /\ Z # T
  /\ \A k \in 1..3 : Less(Zero, W[k])
  /\ IsFinite(Tp[p]) /\ IsFinite(AltCall.value) /\ Tp[p] # AltCall.value

Scenario ==
  /\ X = RingX(3) /\ Y = RingY(3)
  /\ Z = V(<<0, 500, 1000>>) /\ T = V(<<20, 17, 14>>)
  /\ Xp = <<Zero>> /\ Yp = <<Zero>> /\ Zp = <<Num(250)>>

\* C9: in the scenario the three stations are at one distance from the
\* query point and their weights are equal; when the weights are positive
\* the slope is -0.006, the intercept 0 and the result 18.5.
C9_ScenarioValue ==
  (Scenario /\ pc = "points" /\ p = 1) =>
    /\ r[1] = r[2] /\ r[2] = r[3]
    /\ W[1] = W[2] /\ W[2] = W[3]
    /\ Less(Zero, W[1]) => wr = <<Zero, Rat(-3, 500)>> /\ Tp[1] = Rat(37, 2)

\* the scenario with a calibrated radius and positive weights below 1
C9_Witness ==
  /\ Scenario /\ pc = "points" /\ p = 1
  /\ par.iterations = 1
  /\ Less(Zero, W[1]) /\ Less(W[1], One)
  /\ Tp[1] = Rat(37, 2)

\* position (from 0) of the pair (a, b), b < a, in the enumeration with a
\* outer and b inner, both ascending
PairIndex(a, b) == (a * (a - 1)) \div 2 + b

\* the pair at position k (from 0)
PairAt(k) ==
  CHOOSE q \in (0..nstations) \X (0..nstations) :
    q[2] < q[1] /\ PairIndex(q[1], q[2]) = k

============================================================================
